---- MODULE Spec2Model ----
(***************************************************************************)
(* A model of scrapfly_crawler: the adaptive concurrency controller        *)
(* (rate_limiter.py), the URL normalizer (utils.py), the link tracker and  *)
(* its snapshot file (tracker.py, models.py), the retry engine and the     *)
(* per-URL scrape (scraper.py) and the batch loop (crawler.py).            *)
(*                                                                         *)
(* Python's None is the empty sequence <<>>; an Optional value x that is    *)
(* present is <<x>>.                                                       *)
(***************************************************************************)
EXTENDS Integers, Sequences, FiniteSets, TLC

VARIABLES
    rl,        \* the RateLimiter object
    tk,        \* the LinkTracker object, with its state file and the clock
    last,      \* the last tracker call: operation, argument, outcome
    nops,      \* number of calls made so far
    rt,        \* a scrape_with_retry call: its position and what it has done
    cr,        \* a Crawler.crawl call: its position, its scrape_url tasks
    phase      \* which component drives the run, and where it stands

vars == <<rl, tk, last, nops, rt, cr, phase>>

None == <<>>
Some(x) == <<x>>
IsNone(o) == o = <<>>
Val(o) == o[1]

Max(a, b) == IF a >= b THEN a ELSE b
Min(a, b) == IF a <= b THEN a ELSE b

(***************************************************************************)
(* Bounds of the model.                                                    *)
(***************************************************************************)
\* largest concurrency value the environment or the caller configures
MaxConc == 3
\* largest Retry-After value (seconds) a response carries
MaxRetryAfter == 2
\* cap on the consecutive-429 counter (the code's counter is unbounded)
Max429 == 3
\* number of tracker calls in a run of the tracker
MaxOps == 3
\* largest max_retries a caller passes to scrape_with_retry
MaxRetriesArg == 3
\* largest concurrency a crawl is configured with (argument and environment)
MaxCrawlConc == 2
\* number of Fetcher answers other than a 200 page during one crawl
MaxFaults == 2
\* largest number of parameters in a query handed to the normalization
MaxQuery == 2

(***************************************************************************)
(* rate_limiter.py                                                         *)
(***************************************************************************)
\* The environment read by RateLimiter.__init__: INITIAL_CONCURRENCY,
\* MIN_CONCURRENCY, MAX_CONCURRENCY (each defaults to 1), with min <= max.
Envs ==
    { e \in [INITIAL : 1..MaxConc, MIN : 1..MaxConc, MAX : 1..MaxConc] :
        e.MIN <= e.MAX }

\* The statuses an HTTP response carries in the model.
StatusCodes == {200, 301, 404, 429, 500}

\* A retry-after header that is an HTTP-date ("Wed, 21 Oct 2015 07:28:00
\* GMT") and not a number of seconds: float() raises ValueError on it.
HttpDate == -1

\* The retry-after header of a response: absent, a number of seconds ("0" is
\* a non-empty string: it is truthy as a header and falsy as a float), or an
\* HTTP-date.
RetryAfters == {None} \cup { Some(n) : n \in 0..MaxRetryAfter } \cup { Some(HttpDate) }

\* `float(retry_after)` returns
IsFloat(retry_after) == Val(retry_after) # HttpDate

\* RateLimiter.__init__: initial_concurrency None or 0 falls back to the
\* environment's INITIAL_CONCURRENCY; nothing clamps it to [min, max].
RateLimiterInit(initial_concurrency, env) ==
    [ concurrency      |-> IF IsNone(initial_concurrency) \/ Val(initial_concurrency) = 0
                           THEN env.INITIAL
                           ELSE Val(initial_concurrency),
      last_retry_after |-> None,
      consecutive_429s |-> 0,
      min_concurrency  |-> env.MIN,
      max_concurrency  |-> env.MAX ]

\* RateLimiter.update_concurrency raises ValueError (line 21), after lines
\* 17-19 have run
update_concurrency_raises(status_code, retry_after) ==
    status_code = 429 /\ ~IsNone(retry_after) /\ ~IsFloat(retry_after)

\* RateLimiter.update_concurrency: the RateLimiter when it returns or raises
update_concurrency(r, status_code, retry_after) ==
    IF status_code = 429
    THEN [ r EXCEPT !.consecutive_429s = @ + 1,
                    !.concurrency = Max(r.min_concurrency, r.concurrency - 1),
                    !.last_retry_after =
                        IF ~IsNone(retry_after) /\ IsFloat(retry_after)
                        THEN retry_after ELSE @ ]
    ELSE [ r EXCEPT !.consecutive_429s = 0,
                    !.concurrency = Min(r.max_concurrency, r.concurrency + 1) ]

\* `if self.last_retry_after:` -- None and 0.0 are both falsy
MustWait(r) == ~IsNone(r.last_retry_after) /\ Val(r.last_retry_after) # 0

\* RateLimiter.wait_if_needed, run by a single caller: sleep, then clear
wait_if_needed(r) ==
    IF MustWait(r) THEN [ r EXCEPT !.last_retry_after = None ] ELSE r

(***************************************************************************)
(* utils.py: URLs and their normalization.                                 *)
(*                                                                         *)
(* A URL string is written as a record: its scheme, its host (the netloc,   *)
(* when it is not empty), its path, its query and its fragment.  A path is *)
(* a sequence of tokens ("/", "ex", "p", ...) so that `pattern in          *)
(* parsed.path` is containment of one token sequence in another; the path  *)
(* of a URL without a host holds everything between the scheme and the     *)
(* "?", the "//" of an empty netloc included.  A query is the sequence of  *)
(* its parameter names as they are written, percent-encoded or not (values *)
(* are not modelled).  Schemes are written in lower case, a fragment ""    *)
(* stands for a URL without "#".                                           *)
(***************************************************************************)
U(scheme, host, path, query, frag) ==
    [ scheme |-> scheme, host |-> host, path |-> path, query |-> query,
      frag |-> frag ]

\* str.lower() on the strings of the model
LowerStr(s) ==
    CASE s = "A.com" -> "a.com"
      [] s = "TS"    -> "ts"
      [] OTHER       -> s

\* skip_params of normalize_query_params (those the model's queries use)
skip_params == {"utm_source", "ts"}

KeepParam(k) == LowerStr(k) \notin skip_params

\* the schemes urllib writes with "//" even when the netloc is empty
uses_netloc == {"http", "https"}

StartsWithSlashes(path) == Len(path) >= 2 /\ path[1] = "/" /\ path[2] = "/"

\* the record of a string: what follows a leading "//" up to the next "/" is
\* the host
Canon(url) ==
    IF /\ url.host = "" /\ StartsWithSlashes(url.path)
       /\ Len(url.path) >= 3 /\ url.path[3] # "/"
    THEN [ url EXCEPT !.host = url.path[3],
                      !.path = SubSeq(url.path, 4, Len(url.path)) ]
    ELSE url

\* urlparse(url): the netloc is in `host`, the path starts after the netloc
SplitNetloc(c) ==
    IF c.host = "" /\ StartsWithSlashes(c.path)
    THEN [ c EXCEPT !.path = SubSeq(c.path, 3, Len(c.path)) ]
    ELSE c

urlparse(url) == SplitNetloc(Canon(url))

\* urlunparse(parts): "//" and the netloc are written when the netloc is not
\* empty, or when the scheme uses a netloc and the path does not itself
\* start with "//"; otherwise the path follows the scheme directly
urlunparse(parts) ==
    IF parts.host # ""
    THEN IF parts.path # <<>> /\ parts.path[1] # "/"
         THEN [ parts EXCEPT !.path = <<"/">> \o @ ]
         ELSE parts
    ELSE IF parts.scheme \in uses_netloc /\ ~StartsWithSlashes(parts.path)
         THEN [ parts EXCEPT !.path = <<"/", "/">> \o @ ]
         ELSE Canon(parts)

\* unquote on the parameter names of the model
unquote(name) ==
    CASE name = "%74s"   -> "ts"
      [] name = "%61"    -> "a"
      [] name = "a%26ts" -> "a&ts"
      [] OTHER           -> name

\* quote_plus on the decoded names of the model
quote_plus(name) ==
    CASE name = "a&ts" -> "a%26ts"
      [] OTHER         -> name

\* parse_qs(query, keep_blank_values=True): the decoded names; the dict keeps
\* a name where it occurs first and gathers the later values of that name
\* under it
FirstAt(names, i) == CHOOSE j \in 1..i : names[j] = names[i] /\ \A k \in 1..(j - 1) : names[k] # names[i]

Rank(names, i) ==
    Cardinality({ j \in DOMAIN names :
                    \/ FirstAt(names, j) < FirstAt(names, i)
                    \/ FirstAt(names, j) = FirstAt(names, i) /\ j <= i })

Grouped(names) ==
    [ k \in DOMAIN names |-> names[CHOOSE i \in DOMAIN names : Rank(names, i) = k] ]

parse_qs(query) == Grouped([ i \in DOMAIN query |-> unquote(query[i]) ])

\* urlencode(params, doseq=True)
urlencode(params) == [ i \in DOMAIN params |-> quote_plus(params[i]) ]

\* normalize_query_params: a URL without a query is returned as it is (its
\* fragment too); otherwise the query is parsed, the skipped parameters are
\* dropped, the others are encoded again, and urlunparse rebuilds the URL
\* with an empty fragment.
normalize_query_params(url) ==
    IF url.query = <<>>
    THEN url
    ELSE urlunparse([ urlparse(url) EXCEPT
                        !.query = urlencode(SelectSeq(parse_qs(@), KeepParam)),
                        !.frag = "" ])

\* strip_url_fragment: urldefrag returns a URL without "#" as it is, and
\* parses and rebuilds any other
strip_url_fragment(url) ==
    IF url.frag = ""
    THEN url
    ELSE urlunparse([ urlparse(url) EXCEPT !.frag = "" ])

\* the two lines every tracker operation starts with (tracker.py:65-66)
Clean(url) == strip_url_fragment(normalize_query_params(url))

\* normalize_domain
normalize_domain(domain) == LowerStr(domain)

\* get_domain
get_domain(url) == normalize_domain(url.host)

\* `pattern in path` for token sequences
Contains(pattern, path) ==
    \E i \in 0..(Len(path) - Len(pattern)) :
        SubSeq(path, i + 1, i + Len(pattern)) = pattern

\* should_exclude_url
should_exclude_url(url, exclude_patterns) ==
    /\ exclude_patterns # {}
    /\ \E pattern \in exclude_patterns : Contains(pattern, url.path)

\* the path tokens of the model that end in one of skip_extensions (and
\* contain one of the extensions scrape_url skips)
ExtTokens == { "i.png" }

\* is_resource_url: the URL string ends in a skipped extension (its last
\* path token does, when no query or fragment follows), or contains one of
\* skip_patterns
is_resource_url(url) ==
    \/ /\ url.frag = "" /\ url.query = <<>> /\ url.path # <<>>
       /\ LowerStr(url.path[Len(url.path)]) \in ExtTokens
    \/ Contains(<<"/", "static", "/">>, url.path)

\* an href: a URL, a root-relative reference (no scheme, no host) or ""
IsEmptyLink(link) == link.scheme = "" /\ link.host = "" /\ link.path = <<>>
IsRelative(link) == link.scheme = "" /\ link.host = ""

\* normalize_url: urljoin(base_url, link)
normalize_url(base_url, link) ==
    IF IsRelative(link)
    THEN [ link EXCEPT !.scheme = base_url.scheme, !.host = base_url.host ]
    ELSE link

\* mutant: filter_links without the same-domain test
filter_links_anydomain(base_url, links, exclude_patterns) ==
    { Clean(normalize_url(base_url, link)) :
        link \in { l \in links :
            /\ ~IsEmptyLink(l)
            /\ ~should_exclude_url(Clean(normalize_url(base_url, l)), exclude_patterns)
            /\ ~is_resource_url(Clean(normalize_url(base_url, l))) } }

\* filter_links
filter_links(base_url, links, exclude_patterns) ==
    LET domain == get_domain(base_url) IN
    { Clean(normalize_url(base_url, link)) :
        link \in { l \in links :
            /\ ~IsEmptyLink(l)
            /\ ~should_exclude_url(Clean(normalize_url(base_url, l)), exclude_patterns)
            /\ ~is_resource_url(Clean(normalize_url(base_url, l)))
            /\ normalize_domain(Clean(normalize_url(base_url, l)).host)
                 = normalize_domain(domain) } }

(***************************************************************************)
(* The URLs of the model.                                                  *)
(***************************************************************************)
P_root == <<"/">>
P_p == <<"/", "p">>
P_ex == <<"/", "ex", "/", "q">>

Root == U("http", "a.com", P_root, <<>>, "")
Page == U("http", "a.com", P_p, <<>>, "")
PageTracked == U("http", "a.com", P_p, <<"utm_source">>, "f")
ExPage == U("http", "a.com", P_ex, <<>>, "")
ExPageTracked == U("http", "a.com", P_ex, <<"TS">>, "")
Offsite == U("http", "b.org", P_root, <<>>, "")
SecurePage == U("https", "a.com", P_p, <<>>, "")
UpperPage == U("http", "A.com", P_p, <<>>, "")
Image == U("http", "a.com", <<"/", "i.png">>, <<>>, "")
RelPage == U("", "", P_p, <<"utm_source">>, "f")
EmptyLink == U("", "", <<>>, <<>>, "")

(***************************************************************************)
(* models.py, tracker.py: the LinkTracker and its state file.              *)
(*                                                                         *)
(* A tracker operation is an operator from the tracker (with its file and  *)
(* the wall clock `now`) to an outcome: the tracker afterwards, the value  *)
(* returned ("True", "False", "None": its repr) and the exception raised   *)
(* (None when it returns).                                                 *)
(***************************************************************************)
PENDING == "PENDING"
IN_PROGRESS == "IN_PROGRESS"
COMPLETED == "COMPLETED"
FAILED == "FAILED"

\* CrawlStatus.value and CrawlStatus(value)
StatusValue(st) ==
    CASE st = PENDING     -> "pending"
      [] st = IN_PROGRESS -> "in_progress"
      [] st = COMPLETED   -> "completed"
      [] st = FAILED      -> "failed"

CrawlStatus(v) ==
    CASE v = "pending"     -> PENDING
      [] v = "in_progress" -> IN_PROGRESS
      [] v = "completed"   -> COMPLETED
      [] v = "failed"      -> FAILED

\* LinkMetadata(url=url): the dataclass declares no final_url, redirect_chain
\* or is_redirected field; `redirect` is None while the object has none of
\* the three attributes (update_from_result and load_state set them).
LinkMetadata(url) ==
    [ url |-> url, status_code |-> None, error |-> None, redirect |-> None ]

EmptyMap == [ k \in {} |-> None ]

Put(f, k, v) == [ x \in DOMAIN f \cup {k} |-> IF x = k THEN v ELSE f[x] ]
Without(f, ks) == [ x \in DOMAIN f \ ks |-> f[x] ]

Ok(t, ret) == [ t |-> t, ret |-> ret, exc |-> None ]
Raise(t, msg) == [ t |-> t, ret |-> "None", exc |-> Some(msg) ]
Raised(o) == ~IsNone(o.exc)

AttributeError == "'LinkMetadata' object has no attribute 'final_url'"
KeyError == "KeyError"

\* one entry of state['links'] as save_state writes it
LinkData(metadata) ==
    [ url            |-> metadata.url,
      status_code    |-> metadata.status_code,
      error          |-> metadata.error,
      final_url      |-> Val(metadata.redirect).final_url,
      redirect_chain |-> Val(metadata.redirect).redirect_chain,
      is_redirected  |-> Val(metadata.redirect).is_redirected ]

\* the state dictionary save_state serializes
StateOf(t) ==
    [ base_url         |-> t.base_url,
      domain           |-> t.domain,
      exclude_patterns |-> t.exclude_patterns,
      excluded_count   |-> t.excluded_count,
      links            |-> [ url \in DOMAIN t.links |-> LinkData(t.links[url]) ],
      status           |-> [ url \in DOMAIN t.status |-> StatusValue(t.status[url]) ],
      discovered_at    |-> t.discovered_at ]

\* save_state: reading metadata.final_url of a record that never got the
\* attribute raises AttributeError while the dictionary is built, before
\* anything is written.
save_state(t) ==
    IF ~t.state_file
    THEN Ok(t, "None")
    ELSE IF \E url \in DOMAIN t.links : IsNone(t.links[url].redirect)
    THEN Raise(t, AttributeError)
    ELSE Ok([ t EXCEPT !.file = Some(StateOf(t)) ], "None")

\* load_state: the patterns given to the constructor take precedence over
\* the file's
load_state(t, state) ==
    [ t EXCEPT
        !.base_url = state.base_url,
        !.domain = state.domain,
        !.exclude_patterns = IF t.exclude_patterns = {}
                             THEN state.exclude_patterns ELSE @,
        !.excluded_count = state.excluded_count,
        !.links = [ url \in DOMAIN state.links |->
                      [ url         |-> state.links[url].url,
                        status_code |-> state.links[url].status_code,
                        error       |-> state.links[url].error,
                        redirect    |-> Some(
                          [ is_redirected  |-> state.links[url].is_redirected,
                            redirect_chain |-> state.links[url].redirect_chain,
                            final_url      |-> state.links[url].final_url ]) ] ],
        !.status = [ url \in DOMAIN state.status |-> CrawlStatus(state.status[url]) ],
        !.discovered_at = state.discovered_at ]

\* mutant: the purge leaves the status of the removed links behind
_filter_excluded_links_keep_status(t) ==
    IF t.exclude_patterns = {}
    THEN Ok(t, "None")
    ELSE LET links_to_remove ==
                 { url \in DOMAIN t.links :
                     should_exclude_url(url, t.exclude_patterns) }
             t1 == [ t EXCEPT
                       !.links = Without(@, links_to_remove),
                       !.discovered_at = Without(@, links_to_remove),
                       !.excluded_count = @ + Cardinality(links_to_remove) ]
         IN  IF t.state_file /\ links_to_remove # {}
             THEN save_state(t1)
             ELSE Ok(t1, "None")

\* _filter_excluded_links
_filter_excluded_links(t) ==
    IF t.exclude_patterns = {}
    THEN Ok(t, "None")
    ELSE LET links_to_remove ==
                 { url \in DOMAIN t.links :
                     should_exclude_url(url, t.exclude_patterns) }
             t1 == [ t EXCEPT
                       !.links = Without(@, links_to_remove),
                       !.status = Without(@, links_to_remove),
                       !.discovered_at = Without(@, links_to_remove),
                       !.excluded_count = @ + Cardinality(links_to_remove) ]
         IN  IF t.state_file /\ links_to_remove # {}
             THEN save_state(t1)
             ELSE Ok(t1, "None")

\* LinkTracker.__init__: `file` is the content of state_file (None when the
\* file does not exist), `now` the wall clock.
LinkTracker(base_url, state_file, exclude_patterns, file, now) ==
    LET t0 == [ base_url         |-> base_url,
                domain           |-> get_domain(base_url),
                links            |-> EmptyMap,
                status           |-> EmptyMap,
                discovered_at    |-> EmptyMap,
                state_file       |-> state_file,
                exclude_patterns |-> exclude_patterns,
                excluded_count   |-> 0,
                file             |-> file,
                now              |-> now ]
    IN  IF state_file /\ ~IsNone(file)
        THEN _filter_excluded_links(load_state(t0, Val(file))).t
        ELSE t0

\* mutant: add_link without the discovery timestamp of line 78
add_link_undated(t, url) ==
    LET Keyed(clean_url) ==
        IF should_exclude_url(clean_url, t.exclude_patterns)
        THEN Ok([ t EXCEPT !.excluded_count = @ + 1 ], "False")
        ELSE IF clean_url \in DOMAIN t.links
        THEN Ok(t, "False")
        ELSE LET t1 == [ t EXCEPT
                           !.links = Put(@, clean_url, LinkMetadata(clean_url)),
                           !.status = Put(@, clean_url, PENDING),
                           !.now = @ + 1 ]
                 saved == save_state(t1)
             IN  IF Raised(saved) THEN saved ELSE Ok(saved.t, "True")
    IN  Keyed(Clean(url))

\* mutant: add_link without the exclusion check
add_link_noexclude(t, url) ==
    LET Keyed(clean_url) ==
        IF clean_url \in DOMAIN t.links
        THEN Ok(t, "False")
        ELSE LET t1 == [ t EXCEPT
                           !.links = Put(@, clean_url, LinkMetadata(clean_url)),
                           !.status = Put(@, clean_url, PENDING),
                           !.discovered_at = Put(@, clean_url, t.now),
                           !.now = @ + 1 ]
                 saved == save_state(t1)
             IN  IF Raised(saved) THEN saved ELSE Ok(saved.t, "True")
    IN  Keyed(Clean(url))

\* mutant: an excluded URL is rejected without being counted
add_link_nocount(t, url) ==
    LET Keyed(clean_url) ==
        IF should_exclude_url(clean_url, t.exclude_patterns)
        THEN Ok(t, "False")
        ELSE IF clean_url \in DOMAIN t.links
        THEN Ok(t, "False")
        ELSE LET t1 == [ t EXCEPT
                           !.links = Put(@, clean_url, LinkMetadata(clean_url)),
                           !.status = Put(@, clean_url, PENDING),
                           !.discovered_at = Put(@, clean_url, t.now),
                           !.now = @ + 1 ]
                 saved == save_state(t1)
             IN  IF Raised(saved) THEN saved ELSE Ok(saved.t, "True")
    IN  Keyed(Clean(url))

\* add_link
add_link(t, url) ==
    LET Keyed(clean_url) ==
        IF should_exclude_url(clean_url, t.exclude_patterns)
        THEN Ok([ t EXCEPT !.excluded_count = @ + 1 ], "False")
        ELSE IF clean_url \in DOMAIN t.links
        THEN Ok(t, "False")
        ELSE LET t1 == [ t EXCEPT
                           !.links = Put(@, clean_url, LinkMetadata(clean_url)),
                           !.status = Put(@, clean_url, PENDING),
                           !.discovered_at = Put(@, clean_url, t.now),
                           !.now = @ + 1 ]
                 saved == save_state(t1)
             IN  IF Raised(saved) THEN saved ELSE Ok(saved.t, "True")
    IN  Keyed(Clean(url))

\* update_status
update_status(t, url, status, error) ==
    LET Keyed(clean_url) ==
        IF clean_url \in DOMAIN t.links
        THEN save_state([ t EXCEPT
                            !.status[clean_url] = status,
                            !.links[clean_url].error =
                                IF ~IsNone(error) THEN error ELSE @ ])
        ELSE Ok(t, "None")
    IN  Keyed(Clean(url))

\* update_from_result: result.response is [status_code, history, url]
update_from_result(t, result, url) ==
    LET Redirect(clean_url) ==
            IF result.history # <<>>
            THEN [ is_redirected  |-> TRUE,
                   redirect_chain |-> result.history,
                   final_url      |-> Some(result.url) ]
            ELSE [ is_redirected  |-> FALSE,
                   redirect_chain |-> <<>>,
                   final_url      |-> Some(clean_url) ]
        \* lines 120-125: the target of a redirect is added to the frontier
        Returned(o) == IF Raised(o) THEN o ELSE Ok(o.t, "None")
        AddTarget(saved, final_clean_url) ==
            IF final_clean_url \notin DOMAIN saved.t.links
            THEN Returned(add_link(saved.t, final_clean_url))
            ELSE Ok(saved.t, "None")
        Target(saved, redirect) ==
            IF Raised(saved) THEN saved
            ELSE IF /\ redirect.is_redirected
                    /\ ~IsNone(redirect.final_url)
                    /\ get_domain(Val(redirect.final_url)) = saved.t.domain
            THEN AddTarget(saved, Clean(Val(redirect.final_url)))
            ELSE Ok(saved.t, "None")
        \* lines 93-118: the record is updated and saved
        Record(clean_url, added, redirect) ==
            IF Raised(added) THEN added
            ELSE IF clean_url \notin DOMAIN added.t.links THEN Raise(added.t, KeyError)
            ELSE Target(save_state([ added.t EXCEPT
                          !.links[clean_url].status_code = Some(result.status_code),
                          !.links[clean_url].redirect = Some(redirect),
                          !.status[clean_url] = COMPLETED ]),
                        redirect)
        \* lines 88-91: an unknown URL is added first
        Keyed(clean_url) ==
            Record(clean_url,
                   IF clean_url \notin DOMAIN t.links
                   THEN add_link(t, clean_url)
                   ELSE Ok(t, "None"),
                   Redirect(clean_url))
    IN  Keyed(Clean(url))

\* get_pending_links, get_failed_links, get_completed_links
get_pending_links(t) ==
    { url \in DOMAIN t.status :
        /\ t.status[url] = PENDING
        /\ ~should_exclude_url(url, t.exclude_patterns) }

get_failed_links(t) == { url \in DOMAIN t.status : t.status[url] = FAILED }

get_completed_links(t) == { url \in DOMAIN t.status : t.status[url] = COMPLETED }

get_excluded_count(t) == t.excluded_count

(***************************************************************************)
(* scraper.py: scrape_with_retry.                                          *)
(*                                                                         *)
(* A call is a record: `pc` names the request it awaits ("primary": the    *)
(* URL itself, "fallback": its http:// form, "redirect": the Location of a *)
(* 301) or "done"; `result` is what it returned (None, or Some(response)). *)
(* A step is the Fetcher's answer to the awaited request, followed by the  *)
(* code up to the next request (the backoff sleeps included) or the        *)
(* return.  `requests`, `primaries`, `seen0` and `retried429` record what  *)
(* the call did: requests issued, requests issued for the URL itself, the  *)
(* statuses received during attempt 0, the retry-after headers of the 429  *)
(* responses it retried, the statuses received (`statuses`) and the number *)
(* of requests that raised (`errors`).  `exc` is the exception that left   *)
(* the call, None when it returned.                                        *)
(***************************************************************************)
\* int(os.getenv('MAX_RETRIES', 3))
EnvMaxRetries == 3

\* mutant: the max_retries argument is ignored
EffectiveMaxRetries_env(max_retries) == EnvMaxRetries

\* `max_retries or int(os.getenv('MAX_RETRIES', 3))`: None and 0 are falsy
EffectiveMaxRetries(max_retries) ==
    IF IsNone(max_retries) \/ Val(max_retries) = 0
    THEN EnvMaxRetries
    ELSE Val(max_retries)

\* a response of the Fetcher: result.response and result.selector's links
Response(status_code, retry_after, location, content_type, history, url, links) ==
    [ status_code |-> status_code, retry_after |-> retry_after,
      location |-> location, content_type |-> content_type,
      history |-> history, url |-> url, links |-> links ]

\* what client.async_scrape under asyncio.wait_for raises
TimeoutError == "TimeoutError"
ConnectionError == "ConnectionError"
OtherException == "Exception"
FetchErrors == { TimeoutError, ConnectionError, OtherException }

\* what float(retry_after) raises
ValueError == "ValueError"

\* url.startswith('https://') and url.replace('https://', 'http://', 1)
IsHttps(url) == url.scheme = "https"
HttpForm(url) == [ url EXCEPT !.scheme = "http" ]

Issue(c, pc, target) ==
    [ c EXCEPT !.pc = pc, !.target = target, !.requests = @ + 1,
               !.primaries = IF pc = "primary" THEN @ + 1 ELSE @ ]

\* the first iteration of `for attempt in range(max_retries)`
scrape_with_retry(url, max_retries) ==
    LET c == [ url |-> url, max_retries |-> EffectiveMaxRetries(max_retries),
               arg |-> max_retries,
               attempt |-> 0, pc |-> "start", target |-> url, result |-> None,
               requests |-> 0, primaries |-> 0, seen0 |-> {}, retried429 |-> <<>>,
               statuses |-> {}, errors |-> 0, exc |-> None ]
    IN  Issue(c, "primary", url)

Return(c, result) == [ c EXCEPT !.pc = "done", !.result = result ]

\* `continue`: the next iteration of the loop, or the `return None` after it
Continue(c) ==
    IF c.attempt + 1 < c.max_retries
    THEN Issue([ c EXCEPT !.attempt = @ + 1 ], "primary", c.url)
    ELSE Return(c, None)

\* `if attempt < max_retries - 1: continue` followed by `return result`
ContinueOrReturn(c, result) ==
    IF c.attempt < c.max_retries - 1 THEN Continue(c) ELSE Return(c, result)

\* an exception that no handler catches leaves the coroutine
Escape(c, exc) == [ c EXCEPT !.pc = "done", !.exc = Some(exc) ]

\* the classes `except Exception` catches
IsException(exc) == exc \in FetchErrors \cup { ValueError }

\* mutant: the outer try without its `except Exception` clause
OuterExcept_network(c, exc) ==
    IF exc \in { TimeoutError, ConnectionError }
    THEN ContinueOrReturn(c, None)
    ELSE Escape(c, exc)

\* lines 112-123: the handlers of the outer try
OuterExcept(c, exc) ==
    IF exc \in { TimeoutError, ConnectionError }
    THEN ContinueOrReturn(c, None)
    ELSE IF IsException(exc)
    THEN Return(c, None)
    ELSE Escape(c, exc)

\* mutant: client errors are classified as server errors
ServerError_4xx(status_code) == 400 <= status_code /\ status_code < 600

\* `500 <= result.response.status_code < 600`
ServerError(status_code) == 500 <= status_code /\ status_code < 600

\* lines 68-110: the classification of the response to the primary or the
\* fallback request
Classify(c, response) ==
    IF response.status_code = 301 /\ ~IsNone(response.location)
    THEN Issue(c, "redirect", Val(response.location))
    ELSE IF ServerError(response.status_code)
    THEN ContinueOrReturn(c, Some(response))
    ELSE IF response.status_code = 429
    THEN IF c.attempt < c.max_retries - 1
         THEN IF ~IsNone(response.retry_after) /\ ~IsFloat(response.retry_after)
              THEN OuterExcept(c, ValueError)
              ELSE Continue([ c EXCEPT !.retried429 = Append(@, response.retry_after) ])
         ELSE Return(c, Some(response))
    ELSE Return(c, Some(response))

Seen(c, response) ==
    [ c EXCEPT !.seen0 = IF c.attempt = 0 THEN @ \cup {response.status_code} ELSE @,
               !.statuses = @ \cup {response.status_code} ]

\* mutant: the response to the followed redirect is classified like any other
OnResponse_classified(c, response) == Classify(Seen(c, response), response)

\* the awaited request returns `response`
OnResponse(c, response) ==
    IF c.pc = "redirect"
    THEN Return(Seen(c, response), Some(response))
    ELSE Classify(Seen(c, response), response)

\* the inner handlers (`except asyncio.TimeoutError`, lines 39-66 and 83-88);
\* what they do not catch goes to the outer handlers
InnerExcept(c, exc) ==
    IF exc # TimeoutError
    THEN OuterExcept(c, exc)
    ELSE IF c.pc = "primary" /\ IsHttps(c.url) /\ c.attempt = 0
    THEN Issue(c, "fallback", HttpForm(c.url))
    ELSE ContinueOrReturn(c, None)

\* the awaited request raises `exc`
OnRaise(c, exc) == InnerExcept([ c EXCEPT !.errors = @ + 1 ], exc)

(***************************************************************************)
(* scraper.py: scrape_url.                                                 *)
(*                                                                         *)
(* A scrape_url task is a record: `pc` is "gate" while it sleeps in        *)
(* wait_if_needed, "fetch" while its scrape_with_retry call (`call`)       *)
(* awaits the Fetcher, "done" once it has returned; `ret` is what it       *)
(* returned: "None", "dict" (the result data) or "raise" (an exception     *)
(* left it, `exc`).  The code between two awaits runs without interruption *)
(* (one asyncio event loop), so a step runs from one await to the next.    *)
(***************************************************************************)
\* f"Client error: {status_code}"
ClientErrorMsg(status_code) ==
    CASE status_code = 404 -> "Client error: 404"
      [] status_code = 429 -> "Client error: 429"
      [] OTHER             -> "Client error: 4xx"

NoResultMsg == "Failed to get a valid result after all retries"
ExcludedMsg == "URL matches exclude pattern"

\* `any(ext in url.lower() for ext in [...])`
IsBinaryUrl(url) ==
    \E i \in 1..Len(url.path) : LowerStr(url.path[i]) \in ExtTokens

\* `any(binary_type in content_type for binary_type in [...])`
IsBinaryType(content_type) == content_type = "image/png"

Task(url, pc, call, ret, exc) ==
    [ url |-> url, pc |-> pc, call |-> call, ret |-> ret, exc |-> exc,
      gates |-> 0,       \* calls of rate_limiter.wait_if_needed made so far
      slept |-> None ]   \* the delay it sleeps or slept on in wait_if_needed

\* what a step of scrape_url leaves: the tracker, the rate limiter, the task
Step(t, r, task) == [ t |-> t, r |-> r, task |-> task ]

\* `return None`, `return data`, or the exception that leaves the coroutine
Finish(t, r, task, ret, exc) ==
    Step(t, r, [ task EXCEPT !.pc = "done", !.ret = ret, !.exc = exc ])

\* lines 236-239: the handler of `except Exception as e`; an exception
\* raised inside the handler leaves scrape_url
Handler(t, r, task, msg) ==
    LET o == update_status(t, task.url, FAILED, Some(msg)) IN
    IF Raised(o)
    THEN Finish(o.t, r, task, "raise", o.exc)
    ELSE Finish(o.t, r, task, "None", None)

\* lines 227-229 under the `except Exception` of line 230: add_link for
\* each filtered link in the set's iteration order; the first exception
\* ends the loop and is logged
RECURSIVE AddLinks(_, _)
AddLinks(t, links) ==
    IF links = <<>> THEN t
    ELSE LET o == add_link(t, Head(links)) IN
         IF Raised(o) THEN o.t ELSE AddLinks(o.t, Tail(links))

\* the orders in which a set can be iterated
Orders(S) ==
    { q \in [ 1..Cardinality(S) -> S ] : \A x \in S : \E i \in DOMAIN q : q[i] = x }

\* lines 130-144: up to the first await.  wait_if_needed sleeps when a
\* retry-after is pending; otherwise scrape_with_retry issues its first
\* request at once.
scrape_url(t, r, url) ==
    LET task == Task(url, "start", None, "None", None) IN
    IF should_exclude_url(url, t.exclude_patterns)
    THEN LET o == update_status(t, url, FAILED, Some(ExcludedMsg)) IN
         IF Raised(o)
         THEN Finish(o.t, r, task, "raise", o.exc)
         ELSE Finish(o.t, r, task, "None", None)
    ELSE IF IsBinaryUrl(url)
    THEN Finish(t, r, task, "None", None)
    ELSE IF MustWait(r)
    THEN Step(t, r, [ task EXCEPT !.pc = "gate", !.gates = @ + 1,
                                  !.slept = r.last_retry_after ])
    ELSE Step(t, r, [ task EXCEPT !.pc = "fetch", !.gates = @ + 1,
                                  !.call = Some(scrape_with_retry(url, None)) ])

\* lines 30-31 of rate_limiter.py after the sleep, then line 166
AfterGate(t, r, task) ==
    Step(t, [ r EXCEPT !.last_retry_after = None ],
         [ task EXCEPT !.pc = "fetch",
                       !.call = Some(scrape_with_retry(task.url, None)) ])

\* lines 168-239: from the return of scrape_with_retry to the return of
\* scrape_url; `order` is the iteration order of the filtered links
AfterScrape(t, r, task, order) ==
    LET result == Val(task.call).result IN
    IF ~IsNone(Val(task.call).exc)
    THEN Handler(t, r, task, Val(Val(task.call).exc))
    ELSE IF IsNone(result)
    THEN LET o == update_status(t, task.url, FAILED, Some(NoResultMsg)) IN
         IF Raised(o)
         THEN Handler(o.t, r, task, Val(o.exc))
         ELSE Finish(o.t, r, task, "None", None)
    ELSE
    LET response == Val(result)
        r1 == update_concurrency(r, response.status_code, response.retry_after)
    IN
    IF update_concurrency_raises(response.status_code, response.retry_after)
    THEN Handler(t, r1, task, ValueError)
    ELSE IF 400 <= response.status_code /\ response.status_code < 500
    THEN LET o == update_status(t, task.url, FAILED,
                                Some(ClientErrorMsg(response.status_code))) IN
         IF Raised(o)
         THEN Handler(o.t, r1, task, Val(o.exc))
         ELSE Finish(o.t, r1, task, "None", None)
    ELSE IF IsBinaryType(response.content_type)
    THEN Finish(t, r1, task, "None", None)
    ELSE LET o == update_from_result(t, response, task.url) IN
         IF Raised(o)
         THEN Handler(o.t, r1, task, Val(o.exc))
         ELSE Finish(AddLinks(o.t, order), r1, task, "dict", None)

\* the filtered links of the response scrape_with_retry returned (line 226)
FilteredLinks(t, task) ==
    LET result == Val(task.call).result IN
    IF IsNone(result)
    THEN {}
    ELSE filter_links(t.base_url, Val(result).links, t.exclude_patterns)

(***************************************************************************)
(* SpecRL: a RateLimiter alone, driven by any sequence of calls.           *)
(***************************************************************************)
NoTracker == None
NoCall == [ op |-> "none", url |-> None, ret |-> "None", exc |-> None, known |-> FALSE ]

NoScrape == None
NoCrawl == None

InitRL ==
    /\ phase = "rl"
    /\ rt = NoScrape /\ cr = NoCrawl
    /\ tk = NoTracker
    /\ last = NoCall
    /\ nops = 0
    /\ \E ic \in {None} \cup { Some(n) : n \in 0..MaxConc }, env \in Envs :
         rl = RateLimiterInit(ic, env)

UpdateConcurrency ==
    /\ phase = "rl"
    /\ \E sc \in StatusCodes, ra \in RetryAfters :
         /\ (sc = 429) => rl.consecutive_429s < Max429
         /\ rl' = update_concurrency(rl, sc, ra)
    /\ UNCHANGED <<tk, last, nops, rt, cr, phase>>

WaitIfNeeded ==
    /\ phase = "rl"
    /\ rl' = wait_if_needed(rl)
    /\ UNCHANGED <<tk, last, nops, rt, cr, phase>>

NextRL == UpdateConcurrency \/ WaitIfNeeded

SpecRL == InitRL /\ [][NextRL]_vars

(***************************************************************************)
(* SpecTracker: a LinkTracker alone, constructed with or without a state   *)
(* file and exclusion patterns, then driven by any sequence of calls and   *)
(* re-constructions from its state file.                                   *)
(***************************************************************************)
\* the raw URLs handed to the tracker (its callers hand it URLs of the crawl's
\* domain; Offsite reaches it as a redirect's final URL)
TrackerURLs == { Root, Page, PageTracked, ExPage, ExPageTracked }

\* the exclusion pattern lists a tracker is constructed with
PatternSets == { {}, { <<"/", "ex", "/">> }, { <<"p">> } }

Statuses == { PENDING, IN_PROGRESS, COMPLETED, FAILED }

\* A record of a well-formed state file (every entry carries final_url,
\* redirect_chain and is_redirected), by status.
FileLinkData(url, v) ==
    [ url            |-> url,
      status_code    |-> IF v = "completed" THEN Some(200) ELSE None,
      error          |-> IF v = "failed" THEN Some("Client error: 404") ELSE None,
      final_url      |-> IF v = "completed" THEN Some(url) ELSE None,
      redirect_chain |-> <<>>,
      is_redirected  |-> FALSE ]

\* the keys of the state files a run may find on disk
FileKeys == { Page, ExPage }

\* The state files a tracker may find: none, or a well-formed snapshot of an
\* earlier run made without exclusion patterns.
InitialFiles ==
    {None} \cup
    { Some([ base_url         |-> Root,
             domain           |-> get_domain(Root),
             exclude_patterns |-> {},
             excluded_count   |-> 0,
             links            |-> [ url \in DOMAIN st |-> FileLinkData(url, st[url]) ],
             status           |-> st,
             discovered_at    |-> [ url \in DOMAIN st |-> 0 ] ]) :
        st \in UNION { [ S -> { StatusValue(x) : x \in Statuses } ] :
                        S \in SUBSET FileKeys } }

\* the (status, error) pairs update_status is called with
StatusArgs ==
    { <<IN_PROGRESS, None>>, <<COMPLETED, None>>,
      <<FAILED, Some("Client error: 404")>> }

\* the responses update_from_result is handed for a fetch of `url`
TrackerResults(url) ==
    { [ status_code |-> 200, history |-> <<>>, url |-> url ] } \cup
    { [ status_code |-> 200, history |-> <<url>>, url |-> f ] :
        f \in { Page, ExPage, Offsite } }

InitTracker ==
    /\ phase = "tracker"
    /\ rt = NoScrape /\ cr = NoCrawl
    /\ rl = None
    /\ nops = 0
    /\ last = NoCall
    /\ \E state_file \in BOOLEAN, patterns \in PatternSets, file \in InitialFiles :
         /\ ~state_file => IsNone(file)
         /\ tk = LinkTracker(Root, state_file, patterns, file, 1)

\* `known`: whether the argument's key had a record before the call
Call(op, url, outcome) ==
    /\ tk' = outcome.t
    /\ last' = [ op |-> op, url |-> url, ret |-> outcome.ret,
                 exc |-> outcome.exc,
                 known |-> ~IsNone(url) /\ Clean(Val(url)) \in DOMAIN tk.links ]
    /\ nops' = nops + 1
    /\ UNCHANGED <<rl, rt, cr, phase>>

TrAddLink ==
    /\ phase = "tracker" /\ nops < MaxOps
    /\ \E url \in TrackerURLs : Call("add_link", Some(url), add_link(tk, url))

TrUpdateStatus ==
    /\ phase = "tracker" /\ nops < MaxOps
    /\ \E url \in TrackerURLs, a \in StatusArgs :
         Call("update_status", Some(url), update_status(tk, url, a[1], a[2]))

TrUpdateFromResult ==
    /\ phase = "tracker" /\ nops < MaxOps
    /\ \E url \in TrackerURLs : \E result \in TrackerResults(url) :
         Call("update_from_result", Some(url), update_from_result(tk, result, url))

TrSaveState ==
    /\ phase = "tracker" /\ nops < MaxOps
    /\ Call("save_state", None, save_state(tk))

\* The process ends and a new LinkTracker is constructed on the same state
\* file, with the patterns of the new run.
TrRestart ==
    /\ phase = "tracker" /\ nops < MaxOps
    /\ tk.state_file
    /\ \E patterns \in PatternSets :
         Call("restart", None,
              Ok(LinkTracker(Root, TRUE, patterns, tk.file, tk.now), "None"))

NextTracker ==
    TrAddLink \/ TrUpdateStatus \/ TrUpdateFromResult \/ TrSaveState \/ TrRestart

SpecTracker == InitTracker /\ [][NextTracker]_vars

(***************************************************************************)
(* SpecRetry: one scrape_with_retry call against any Fetcher.              *)
(***************************************************************************)
\* the responses of the Fetcher, by what scrape_with_retry reads of them
RetryResponses ==
    { Response(sc, None, None, "text/html", <<>>, Page, {}) : sc \in {200, 404, 500} }
    \cup { Response(429, ra, None, "text/html", <<>>, Page, {}) : ra \in RetryAfters }
    \cup { Response(301, None, loc, "text/html", <<>>, Page, {}) :
            loc \in { None, Some(Root) } }

InitRetry ==
    /\ phase = "retry"
    /\ rl = None /\ tk = NoTracker /\ last = NoCall /\ nops = 0 /\ cr = NoCrawl
    /\ \E url \in { Page, SecurePage },
          max_retries \in {None} \cup { Some(n) : n \in 0..MaxRetriesArg } :
         rt = scrape_with_retry(url, max_retries)

RtResponse ==
    /\ phase = "retry" /\ rt.pc # "done"
    /\ \E response \in RetryResponses : rt' = OnResponse(rt, response)
    /\ UNCHANGED <<rl, tk, last, nops, cr, phase>>

RtRaise ==
    /\ phase = "retry" /\ rt.pc # "done"
    /\ \E exc \in FetchErrors : rt' = OnRaise(rt, exc)
    /\ UNCHANGED <<rl, tk, last, nops, cr, phase>>

NextRetry == RtResponse \/ RtRaise

SpecRetry == InitRetry /\ [][NextRetry]_vars

(***************************************************************************)
(* SpecCrawl: one Crawler.crawl call, fresh or resumed from a state file,  *)
(* against any Fetcher.  The orchestrator is at "begin", "seed" (the start *)
(* URL's scrape_url is running), "loop" (the head of the while loop),      *)
(* "batch" (awaiting asyncio.gather), "done" or "crashed" (an exception    *)
(* left crawl).                                                            *)
(***************************************************************************)
\* the hrefs of a fetched page
LinkSets == { {}, { RelPage, Offsite, EmptyLink }, { UpperPage, ExPage, Image } }

\* the answers of the Fetcher to a request for `url`
CrawlResponses(url) ==
    { Response(200, None, None, "text/html", <<>>, url, ls) : ls \in LinkSets }
    \cup { Response(200, None, None, "text/html", <<url>>, f, {}) :
             f \in { Page, Offsite } }
    \cup { Response(200, None, None, "image/png", <<>>, url, {}) }
    \cup { Response(sc, None, None, "text/html", <<>>, url, {}) : sc \in {404, 500} }
    \cup { Response(429, ra, None, "text/html", <<>>, url, {}) :
             ra \in { None, Some(MaxRetryAfter) } }
    \cup { Response(301, None, Some(Page), "text/html", <<>>, url, {}) }

IsFault(response) ==
    response.status_code # 200 \/ IsBinaryType(response.content_type)

\* when the earlier crawl discovered `url` (tracker.py:78), before the clock
\* of this run: the start URL first, then the page it links to
DiscoveredEarlier(url) == IF url = Root THEN -2 ELSE IF url = Page THEN -1 ELSE 0

\* a well-formed snapshot of an earlier crawl of the same domain, with the
\* statuses `st`
Snapshot(st) ==
    Some([ base_url         |-> Root,
           domain           |-> get_domain(Root),
           exclude_patterns |-> {},
           excluded_count   |-> 0,
           links            |-> [ url \in DOMAIN st |-> FileLinkData(url, st[url]) ],
           status           |-> st,
           discovered_at    |-> [ url \in DOMAIN st |-> DiscoveredEarlier(url) ] ])

\* three URLs left pending
GateFiles == { Snapshot([ url \in { Root, Page, ExPage } |-> "pending" ]) }

\* the state files a crawl may resume from; one holds a pending URL with a
\* binary extension
CrawlFiles ==
    {None} \cup
    { Snapshot(st) :
        st \in UNION { [ S -> { "pending", "completed" } ] :
                        S \in { {Root}, {Page}, {Root, Page} } } }
    \cup { Snapshot([ url \in { Root, Image } |->
                        IF url = Root THEN "completed" ELSE "pending" ]) }

\* lines 37-45: the start URL without its fragment
NormalizedStart(start_url) == strip_url_fragment(start_url)

\* lines 70-78: the components of a crawl.  `round` counts the batches
\* dispatched, `fetched` holds the URLs whose scrape_url went on to fetch,
\* `log` the URLs of the records written to the output file, in order,
\* `budget` the number of faulty answers the Fetcher may give in the run;
\* `resumed`, `inflight` and `settled` describe the run this one resumes
\* after an interruption (the URLs it left IN_PROGRESS, those it left
\* COMPLETED or FAILED).
Crawl(start, rl0, patterns) ==
    [ pc |-> "begin", start |-> start, tasks |-> <<>>,
      observed |-> {}, faults |-> 0, round |-> 0, fetched |-> {},
      rl0 |-> rl0, patterns |-> patterns,
      resumed |-> FALSE, inflight |-> {}, settled |-> EmptyMap,
      log |-> <<>>, budget |-> MaxFaults ]

\* line 77: the output file is opened to append; the file of the earlier
\* crawl holds a record for each URL its snapshot shows COMPLETED, in the
\* order of their discovery
EarlierLog(file) ==
    IF IsNone(file) THEN <<>>
    ELSE LET done == { url \in DOMAIN Val(file).status :
                         Val(file).status[url] = StatusValue(COMPLETED) }
         IN  CHOOSE q \in Orders(done) :
                \A i, j \in DOMAIN q :
                   i < j => DiscoveredEarlier(q[i]) <= DiscoveredEarlier(q[j])

InitCrawlWith(concurrencies, maxima, files) ==
    /\ phase = "crawl"
    /\ rt = NoScrape /\ last = NoCall /\ nops = 0
    /\ \E concurrent_requests \in concurrencies, max \in maxima,
          patterns \in { {}, { <<"/", "ex", "/">> } }, file \in files :
         /\ rl = RateLimiterInit(Some(concurrent_requests),
                                 [ INITIAL |-> 1, MIN |-> 1, MAX |-> max ])
         /\ tk = LinkTracker(NormalizedStart(Root), TRUE, patterns, file, 1)
         /\ cr = [ Crawl(NormalizedStart(Root), rl, patterns) EXCEPT
                    !.log = EarlierLog(file) ]

InitCrawl == InitCrawlWith(1..MaxCrawlConc, 1..MaxCrawlConc, CrawlFiles)

\* the URLs among `tasks` whose scrape_url reached wait_if_needed
Fetching(tasks) ==
    { tasks[i].url : i \in { j \in DOMAIN tasks : tasks[j].gates > 0 } }

\* lines 80-81: the start URL is fetched unless the restored frontier has it
\* COMPLETED
CrSeed ==
    /\ phase = "crawl" /\ cr.pc = "begin"
    /\ IF cr.start \in get_completed_links(tk)
       THEN /\ cr' = [ cr EXCEPT !.pc = "loop" ]
            /\ UNCHANGED <<tk, rl>>
       ELSE LET st == scrape_url(tk, rl, cr.start) IN
            /\ tk' = st.t /\ rl' = st.r
            /\ cr' = [ cr EXCEPT !.pc = "seed", !.tasks = <<st.task>>,
                                 !.fetched = @ \cup Fetching(<<st.task>>) ]
    /\ UNCHANGED <<last, nops, rt, phase>>

\* lines 82-84: the seed's scrape_url has returned, or raised
CrSeedDone ==
    /\ phase = "crawl" /\ cr.pc = "seed"
    /\ cr.tasks[1].pc = "done"
    /\ cr' = [ cr EXCEPT !.pc = IF cr.tasks[1].ret = "raise" THEN "crashed" ELSE "loop",
                         !.log = IF cr.tasks[1].ret = "dict"
                                 THEN Append(@, cr.tasks[1].url) ELSE @ ]
    /\ UNCHANGED <<rl, tk, last, nops, rt, phase>>

\* `list(tracker.get_pending_links())[:rate_limiter.concurrency]`
Batches(pending, concurrency) ==
    LET n == Min(Max(concurrency, 0), Cardinality(pending)) IN
    { q \in [ 1..n -> pending ] : \A i, j \in 1..n : q[i] = q[j] => i = j }

\* lines 96-97
RECURSIVE MarkInProgress(_, _)
MarkInProgress(t, urls) ==
    IF urls = <<>> THEN Ok(t, "None")
    ELSE LET o == update_status(t, Head(urls), IN_PROGRESS, None) IN
         IF Raised(o) THEN o ELSE MarkInProgress(o.t, Tail(urls))

\* lines 99-103: gather starts the tasks in order; each runs to its first await
RECURSIVE StartTasks(_, _, _, _)
StartTasks(t, r, urls, tasks) ==
    IF urls = <<>> THEN [ t |-> t, r |-> r, tasks |-> tasks ]
    ELSE LET st == scrape_url(t, r, Head(urls)) IN
         StartTasks(st.t, st.r, Tail(urls), Append(tasks, st.task))

\* lines 87-103: the head of the loop and the dispatch of a batch
CrLoop ==
    /\ phase = "crawl" /\ cr.pc = "loop"
    /\ IF get_pending_links(tk) = {}
       THEN /\ cr' = [ cr EXCEPT !.pc = "done" ]
            /\ UNCHANGED <<tk, rl>>
       ELSE \E pending_links \in Batches(get_pending_links(tk), rl.concurrency) :
            IF pending_links = <<>>
            THEN /\ cr' = [ cr EXCEPT !.pc = "done" ]
                 /\ UNCHANGED <<tk, rl>>
            ELSE LET marked == MarkInProgress(tk, pending_links) IN
                 IF Raised(marked)
                 THEN /\ tk' = marked.t
                      /\ cr' = [ cr EXCEPT !.pc = "crashed" ]
                      /\ UNCHANGED rl
                 ELSE LET started == StartTasks(marked.t, rl, pending_links, <<>>) IN
                      /\ tk' = started.t /\ rl' = started.r
                      /\ cr' = [ cr EXCEPT !.pc = "batch", !.tasks = started.tasks,
                                           !.round = @ + 1,
                                           !.fetched = @ \cup Fetching(started.tasks) ]
    /\ UNCHANGED <<last, nops, rt, phase>>

\* lines 106-114
RECURSIVE Fold(_, _)
Fold(t, tasks) ==
    IF tasks = <<>> THEN Ok(t, "None")
    ELSE LET task == Head(tasks)
             o == IF task.ret = "raise"
                  THEN update_status(t, task.url, FAILED, task.exc)
                  ELSE IF task.ret = "dict"
                  THEN update_status(t, task.url, COMPLETED, None)
                  ELSE Ok(t, "None")
         IN  IF Raised(o) THEN o ELSE Fold(o.t, Tail(tasks))

\* line 113: the records the fold writes to the output file, up to the
\* update_status call that raises
RECURSIVE Written(_, _)
Written(t, tasks) ==
    IF tasks = <<>> THEN <<>>
    ELSE LET Rest(task, o) ==
                 IF Raised(o) THEN <<>> ELSE Written(o.t, Tail(tasks))
             Record(task) ==
                 IF task.ret = "raise"
                 THEN Rest(task, update_status(t, task.url, FAILED, task.exc))
                 ELSE IF task.ret = "dict"
                 THEN <<task.url>> \o
                      Rest(task, update_status(t, task.url, COMPLETED, None))
                 ELSE Rest(task, Ok(t, "None"))
         IN  Record(Head(tasks))

\* mutant: gather returns without waiting for the tasks
NoneAwaited(tasks) == TRUE

\* `await asyncio.gather(*tasks, return_exceptions=True)` returns
AllResolved(tasks) == \A i \in DOMAIN tasks : tasks[i].pc = "done"

\* lines 103-123: gather has every result; they are folded into the tracker,
\* then the loop sleeps; an exception saves the state and leaves crawl
CrFold ==
    /\ phase = "crawl" /\ cr.pc = "batch"
    /\ AllResolved(cr.tasks)
    /\ LET o == Fold(tk, cr.tasks) IN
       IF Raised(o)
       THEN /\ tk' = save_state(o.t).t
            /\ cr' = [ cr EXCEPT !.pc = "crashed",
                                 !.log = @ \o Written(tk, cr.tasks) ]
       ELSE /\ tk' = o.t
            /\ cr' = [ cr EXCEPT !.pc = "loop",
                                 !.log = @ \o Written(tk, cr.tasks) ]
    /\ UNCHANGED <<rl, last, nops, rt, phase>>

\* the sleep of wait_if_needed ends
TaskWake ==
    /\ phase = "crawl" /\ cr.pc \in { "seed", "batch" }
    /\ \E i \in DOMAIN cr.tasks :
         /\ cr.tasks[i].pc = "gate"
         /\ LET st == AfterGate(tk, rl, cr.tasks[i]) IN
            /\ tk' = st.t /\ rl' = st.r
            /\ cr' = [ cr EXCEPT !.tasks[i] = st.task ]
    /\ UNCHANGED <<last, nops, rt, phase>>

\* what update_concurrency has been called with, and for which URL
Observe(observed, task) ==
    LET result == Val(task.call).result IN
    IF Val(task.call).pc = "done" /\ ~IsNone(result)
    THEN observed \cup { <<task.url, Val(result).status_code, Val(result).retry_after>> }
    ELSE observed

\* the task's scrape_with_retry call has moved to `c`: it awaits its next
\* request, or it has returned and scrape_url runs to its end
Advance(i, c, fault) ==
    LET task == [ cr.tasks[i] EXCEPT !.call = Some(c) ] IN
    IF c.pc # "done"
    THEN /\ cr' = [ cr EXCEPT !.tasks[i] = task, !.faults = @ + fault ]
         /\ UNCHANGED <<tk, rl>>
    ELSE \E order \in Orders(FilteredLinks(tk, task)) :
           LET st == AfterScrape(tk, rl, task, order) IN
           /\ tk' = st.t /\ rl' = st.r
           /\ cr' = [ cr EXCEPT !.tasks[i] = st.task, !.faults = @ + fault,
                                !.observed = Observe(@, task) ]

\* the Fetcher answers the request a task awaits
TaskResponse ==
    /\ phase = "crawl" /\ cr.pc \in { "seed", "batch" }
    /\ \E i \in DOMAIN cr.tasks :
         /\ cr.tasks[i].pc = "fetch"
         /\ \E response \in CrawlResponses(Val(cr.tasks[i].call).target) :
              /\ IsFault(response) => cr.faults < cr.budget
              /\ Advance(i, OnResponse(Val(cr.tasks[i].call), response),
                         IF IsFault(response) THEN 1 ELSE 0)
    /\ UNCHANGED <<last, nops, rt, phase>>

\* the request a task awaits times out or raises
TaskRaise ==
    /\ phase = "crawl" /\ cr.pc \in { "seed", "batch" }
    /\ cr.faults < cr.budget
    /\ \E i \in DOMAIN cr.tasks :
         /\ cr.tasks[i].pc = "fetch"
         /\ \E exc \in FetchErrors :
              Advance(i, OnRaise(Val(cr.tasks[i].call), exc), 1)
    /\ UNCHANGED <<last, nops, rt, phase>>

NextCrawl ==
    CrSeed \/ CrSeedDone \/ CrLoop \/ CrFold \/ TaskWake \/ TaskResponse \/ TaskRaise

SpecCrawl == InitCrawl /\ [][NextCrawl]_vars

(***************************************************************************)
(* SpecResume: a crawl that may be interrupted once while a batch is in    *)
(* flight (the process is killed) and is then run again with resume=True   *)
(* on the state file it left.                                              *)
(***************************************************************************)
\* the URLs a tracker holds with one of `statuses`
WithStatus(t, statuses) == { url \in DOMAIN t.status : t.status[url] \in statuses }

\* lines 55-78 of the second run: the newest state file of the domain is
\* loaded into a new LinkTracker, with a new RateLimiter, and the output file
\* of the first run is opened to append
CrInterrupt ==
    /\ phase = "crawl" /\ cr.pc = "batch" /\ ~cr.resumed
    /\ tk' = LinkTracker(cr.start, TRUE, cr.patterns, tk.file, tk.now)
    /\ rl' = cr.rl0
    /\ cr' = [ Crawl(cr.start, cr.rl0, cr.patterns) EXCEPT
                 !.resumed = TRUE,
                 !.faults = cr.faults,
                 !.log = cr.log,
                 !.budget = cr.budget,
                 !.inflight = WithStatus(tk, { IN_PROGRESS }),
                 !.settled = [ url \in WithStatus(tk, { COMPLETED, FAILED }) |->
                                 tk.status[url] ] ]
    /\ UNCHANGED <<last, nops, rt, phase>>

NextResume == NextCrawl \/ CrInterrupt

SpecResume == InitCrawl /\ [][NextResume]_vars

(***************************************************************************)
(* SpecGate: a crawl configured with a concurrency above MaxCrawlConc that *)
(* resumes a snapshot of three pending URLs, so that a batch of two tasks  *)
(* can follow a rate-limit response.                                       *)
(***************************************************************************)
InitGate == InitCrawlWith({ MaxCrawlConc + 1 }, { MaxCrawlConc + 1 }, GateFiles)

SpecGate == InitGate /\ [][NextCrawl]_vars

(***************************************************************************)
(* SpecBurst: a crawl configured with a concurrency above MaxCrawlConc     *)
(* while MAX_CONCURRENCY keeps its default of 1, resuming a snapshot of    *)
(* three pending URLs, so that a batch of three tasks is dispatched.       *)
(***************************************************************************)
BurstFiles == { Snapshot([ url \in { Page, ExPage, SecurePage } |-> "pending" ]) }

InitBurst == InitCrawlWith({ MaxCrawlConc + 1 }, { 1 }, BurstFiles)

SpecBurst == InitBurst /\ [][NextCrawl]_vars

(***************************************************************************)
(* SpecPersist: a crawl with one request at a time, resumed on a snapshot  *)
(* of two pending URLs, against a Fetcher that may give one faulty answer  *)
(* more than MaxFaults, so that every attempt of one scrape_with_retry     *)
(* call can fail.                                                          *)
(***************************************************************************)
PersistFiles == { Snapshot([ url \in { Root, Page } |-> "pending" ]) }

InitPersist ==
    /\ phase = "crawl"
    /\ rt = NoScrape /\ last = NoCall /\ nops = 0
    /\ \E patterns \in { {}, { <<"/", "ex", "/">> } }, file \in PersistFiles :
         /\ rl = RateLimiterInit(Some(1), [ INITIAL |-> 1, MIN |-> 1, MAX |-> 1 ])
         /\ tk = LinkTracker(NormalizedStart(Root), TRUE, patterns, file, 1)
         /\ cr = [ Crawl(NormalizedStart(Root), rl, patterns) EXCEPT
                    !.log = EarlierLog(file),
                    !.budget = MaxFaults + 1 ]

SpecPersist == InitPersist /\ [][NextCrawl]_vars

(***************************************************************************)
(* SpecNorm: the tracker's normalization (tracker.py:65-66, the first two  *)
(* lines of add_link, update_status and update_from_result) applied to a   *)
(* URL, and then to the key it produced.  `last` holds the URL, the key    *)
(* stored for it and the key that a lookup of the stored key computes.     *)
(***************************************************************************)
NormSchemes == { "", "http", "mailto" }
NormHosts == { "", "a.com" }
NormPaths ==
    { <<>>, P_p, <<"/", "/">>, <<"/", "/", "/", "/">>, <<"/", "/", "/", "/", "p">> }
NormNames == { "a", "utm_source", "TS", "%74s", "%61", "a%26ts" }
NormQueries == UNION { [ 1..n -> NormNames ] : n \in 0..MaxQuery }
NormFrags == { "", "f" }

NormURLs ==
    { U(scheme, host, path, query, frag) :
        scheme \in NormSchemes, host \in NormHosts, path \in NormPaths,
        query \in NormQueries, frag \in NormFrags }

InitNorm ==
    /\ phase = "norm"
    /\ rl = None /\ tk = NoTracker /\ rt = NoScrape /\ cr = NoCrawl
    /\ nops = 0
    /\ \E url \in NormURLs :
         last = [ op |-> "none", url |-> url, stored |-> None, found |-> None ]

\* add_link(url) computes the key it stores the record under
NormStore ==
    /\ phase = "norm" /\ last.op = "none"
    /\ last' = [ last EXCEPT !.op = "add_link", !.stored = Some(Clean(last.url)) ]
    /\ nops' = nops + 1
    /\ UNCHANGED <<rl, tk, rt, cr, phase>>

\* update_status(key) with the stored key computes the key it looks up
NormLookup ==
    /\ phase = "norm" /\ last.op = "add_link"
    /\ last' = [ last EXCEPT !.op = "update_status",
                             !.found = Some(Clean(Val(last.stored))) ]
    /\ nops' = nops + 1
    /\ UNCHANGED <<rl, tk, rt, cr, phase>>

NextNorm == NormStore \/ NormLookup

SpecNorm == InitNorm /\ [][NextNorm]_vars

(***************************************************************************)
(* Claims about scrape_with_retry (SpecRetry).                             *)
(***************************************************************************)
\* the N of "max_retries = N": the argument, or the environment's value when
\* the argument is None or 0
RetriesN(c) ==
    IF IsNone(c.arg) \/ Val(c.arg) = 0 THEN EnvMaxRetries ELSE Val(c.arg)

\* C4 as claimed: a scrape_with_retry call with max_retries = N issues at
\* most N requests to the Fetcher.
C4_AtMostNRequests ==
    phase = "retry" => rt.requests <= RetriesN(rt)

\* C4 as amended: the call makes at most N attempts, each with one request
\* for the URL itself; with the http:// fallback of attempt 0 and the one
\* followed 301 per attempt it issues at most 2N + 1 requests.
C4_AtMostNAttempts ==
    phase = "retry" =>
        /\ rt.attempt < RetriesN(rt)
        /\ rt.primaries <= RetriesN(rt)
        /\ rt.primaries = rt.attempt + 1
        /\ rt.requests <= 2 * RetriesN(rt) + 1
        /\ ~IsHttps(rt.url) => rt.requests <= 2 * RetriesN(rt)

\* C4 witness: a call with max_retries = 2 that used both attempts and
\* issued 2N + 1 = 5 requests before it returned.
C4_Witness ==
    /\ phase = "retry"
    /\ rt.arg = Some(2) /\ rt.pc = "done"
    /\ rt.attempt = 1 /\ rt.requests = 5

IsClientError(status_code) == 400 <= status_code /\ status_code < 500

\* C5 as claimed: once attempt 0 has received a 4xx response, whatever its
\* status code, the call never starts attempt 1.
C5_No4xxRetry ==
    phase = "retry" =>
        ((\E sc \in rt.seen0 : IsClientError(sc)) => rt.attempt = 0)

\* C5 as amended: once attempt 0 has received a 4xx response other than 429,
\* the call has returned that response without starting attempt 1.
C5_No4xxRetryBut429 ==
    phase = "retry" =>
        ((\E sc \in rt.seen0 : IsClientError(sc) /\ sc # 429)
            => /\ rt.attempt = 0
               /\ rt.pc = "done"
               /\ ~IsNone(rt.result)
               /\ IsClientError(Val(rt.result).status_code))

\* C5 witness: a call allowed three attempts returned the 404 it received
\* on attempt 0 after one request.
C5_Witness ==
    /\ phase = "retry"
    /\ rt.max_retries = 3 /\ rt.pc = "done" /\ rt.requests = 1
    /\ ~IsNone(rt.result) /\ Val(rt.result).status_code = 404

\* C25 as claimed: when every attempt of a call is answered 5xx, or every
\* attempt is answered 429, the call issues exactly max_retries requests and
\* returns the last response (not None, not an exception).
C25_PersistentErrorReturned ==
    (/\ phase = "retry" /\ rt.pc = "done" /\ rt.errors = 0
     /\ rt.statuses \in { {500}, {429} })
        => /\ rt.requests = rt.max_retries
           /\ IsNone(rt.exc)
           /\ ~IsNone(rt.result)
           /\ Val(rt.result).status_code \in rt.statuses

\* C26: no exception of the Fetcher leaves scrape_with_retry: a timeout or a
\* connection error is followed by another request while attempts remain
\* (or by the http:// fallback of attempt 0) and by `return None` otherwise;
\* any other exception is followed by `return None` at once.
C26_FetchErrorsNeverRaised ==
    [][ (phase = "retry" /\ rt.pc # "done") =>
          \A exc \in FetchErrors :
             rt' = OnRaise(rt, exc) =>
               /\ IsNone(rt'.exc)
               /\ exc = OtherException =>
                    /\ rt'.pc = "done" /\ IsNone(rt'.result)
                    /\ rt'.requests = rt.requests
               /\ exc # OtherException =>
                    IF rt.attempt < rt.max_retries - 1
                    THEN rt'.pc # "done" /\ rt'.requests = rt.requests + 1
                    ELSE \/ rt'.pc = "done" /\ IsNone(rt'.result)
                            /\ rt'.requests = rt.requests
                         \/ rt'.pc = "fallback" /\ rt.pc = "primary"
                            /\ exc = TimeoutError /\ rt'.attempt = 0 ]_vars

C26_Witness ==
    /\ phase = "retry" /\ rt.pc = "done" /\ IsNone(rt.result)
    /\ rt.max_retries = 3 /\ rt.attempt = 2 /\ rt.errors = 3 /\ rt.statuses = {}

\* C27: a 301 with a Location is followed by exactly one request, for the
\* Location, within the same attempt, and whatever answers that request is
\* returned: it is neither retried nor classified.
C27_RedirectFollowedOnce ==
    [][ (phase = "retry" /\ rt.pc # "done") =>
          \A response \in RetryResponses :
             rt' = OnResponse(rt, response) =>
               /\ (/\ rt.pc # "redirect" /\ response.status_code = 301
                   /\ ~IsNone(response.location))
                    => /\ rt'.pc = "redirect"
                       /\ rt'.target = Val(response.location)
                       /\ rt'.requests = rt.requests + 1
                       /\ rt'.attempt = rt.attempt
               /\ rt.pc = "redirect"
                    => /\ rt'.pc = "done"
                       /\ rt'.result = Some(response)
                       /\ rt'.requests = rt.requests ]_vars

C27_Witness ==
    /\ phase = "retry" /\ rt.pc = "done" /\ rt.max_retries = 3 /\ rt.attempt = 0
    /\ rt.requests = 2 /\ rt.errors = 0 /\ rt.statuses = {301, 500}
    /\ ~IsNone(rt.result) /\ Val(rt.result).status_code = 500

(***************************************************************************)
(* Claims about a crawl (SpecCrawl).                                       *)
(***************************************************************************)
\* the response a finished scrape_url task got from scrape_with_retry
HasResult(task) ==
    /\ task.pc = "done" /\ ~IsNone(task.call)
    /\ ~IsNone(Val(task.call).result)
ResultOf(task) == Val(Val(task.call).result)

\* C6: when the crawl has ended, every URL it fetched (the start URL or a
\* batch URL) whose fetch returned a 4xx response is FAILED in the frontier,
\* with the status code in its error message, after exactly one request.
C6_ClientErrorFailedAfterOneRequest ==
    (phase = "crawl" /\ cr.pc = "done") =>
        \A i \in DOMAIN cr.tasks :
            LET task == cr.tasks[i] IN
            (HasResult(task) /\ IsClientError(ResultOf(task).status_code)) =>
                /\ Clean(task.url) \in DOMAIN tk.links
                /\ tk.status[Clean(task.url)] = FAILED
                /\ tk.links[Clean(task.url)].error
                     = Some(ClientErrorMsg(ResultOf(task).status_code))
                /\ Val(task.call).requests = 1

\* C7: when a fetch of a URL was answered 429 with Retry-After r and a later
\* attempt of the same fetch returned 200, the controller's
\* update_concurrency has been called with that 429 and r for that URL.
C7_ControllerObserves429 ==
    phase = "crawl" =>
        \A i \in DOMAIN cr.tasks :
            LET task == cr.tasks[i] IN
            (HasResult(task) /\ ResultOf(task).status_code = 200) =>
                \A k \in DOMAIN Val(task.call).retried429 :
                    LET retry_after == Val(task.call).retried429[k] IN
                    ~IsNone(retry_after) =>
                        <<task.url, 429, retry_after>> \in cr.observed

\* C8: in every state of a crawl, every key of the frontier (links, status,
\* discovered_at) has the lower-cased host of the start URL, whatever links
\* the fetched pages carry and wherever the fetches are redirected.
C8_FrontierInDomain ==
    phase = "crawl" =>
        \A url \in DOMAIN tk.links \cup DOMAIN tk.status \cup DOMAIN tk.discovered_at :
            normalize_domain(url.host) = get_domain(cr.start)

\* C11: every add_link call whose normalized URL matches an exclusion
\* pattern raises excluded_count by exactly one, creates no record and
\* returns False; an add_link call on any other URL leaves the counter as
\* it is.
C11_ExcludedAttemptsCounted ==
    [][ (nops' = nops + 1 /\ last'.op = "add_link") =>
          IF should_exclude_url(Clean(Val(last'.url)), tk.exclude_patterns)
          THEN /\ tk'.excluded_count = tk.excluded_count + 1
               /\ tk'.links = tk.links /\ tk'.status = tk.status
               /\ tk'.discovered_at = tk.discovered_at
               /\ last'.ret = "False" /\ IsNone(last'.exc)
          ELSE tk'.excluded_count = tk.excluded_count ]_vars

\* C11 witness: a tracker that loaded nothing has counted two excluded
\* add_link calls, the last call being one of them.
C11_Witness ==
    /\ phase = "tracker" /\ IsNone(tk.file)
    /\ last.op = "add_link" /\ last.ret = "False"
    /\ should_exclude_url(Clean(Val(last.url)), tk.exclude_patterns)
    /\ tk.excluded_count = 2 /\ nops = 3

\* what a tracker holds in memory
InMemory(t) == <<t.links, t.status, t.discovered_at, t.excluded_count>>

\* the state file holds what the tracker holds
Persisted(t) ==
    /\ ~IsNone(t.file)
    /\ DOMAIN Val(t.file).links = DOMAIN t.links
    /\ \A url \in DOMAIN t.links :
         /\ Val(t.file).links[url].status_code = t.links[url].status_code
         /\ Val(t.file).links[url].error = t.links[url].error
    /\ Val(t.file).status = [ url \in DOMAIN t.status |-> StatusValue(t.status[url]) ]
    /\ Val(t.file).discovered_at = t.discovered_at
    /\ Val(t.file).excluded_count = t.excluded_count

\* C12: with a state file configured, after every call that changed the
\* tracker (add_link, update_status, update_from_result, the purge of the
\* constructor) the state file holds the same links, statuses, discovery
\* timestamps and excluded_count as the tracker.
C12_EveryMutationPersisted ==
    [][ (tk'.state_file /\ nops' = nops + 1) =>
          /\ (/\ last'.op \in { "add_link", "update_status", "update_from_result" }
              /\ InMemory(tk') # InMemory(tk))
                => Persisted(tk')
          /\ (/\ last'.op = "restart" /\ ~IsNone(tk.file)
              /\ tk'.excluded_count # Val(tk.file).excluded_count)
                => Persisted(tk') ]_vars

\* C8 witness: a fetched page carried an off-domain link and a link of the
\* domain; the latter got a record created by add_link, the former none.
C8_Witness ==
    /\ phase = "crawl"
    /\ \E i \in DOMAIN cr.tasks :
         /\ HasResult(cr.tasks[i]) /\ cr.tasks[i].ret = "dict"
         /\ Offsite \in ResultOf(cr.tasks[i]).links
    /\ Page \in DOMAIN tk.links
    /\ IsNone(tk.links[Page].redirect) /\ tk.status[Page] = PENDING
    /\ Offsite \notin DOMAIN tk.links

\* C13: when a run resumed after an interruption has ended, every URL that
\* was IN_PROGRESS at the interruption has been fetched again by it, and
\* every URL that was COMPLETED or FAILED has kept that status and has not
\* been fetched again.
C13_ResumeRefetchesInFlightOnly ==
    (phase = "crawl" /\ cr.resumed /\ cr.pc = "done") =>
        /\ \A url \in cr.inflight : url \in cr.fetched
        /\ \A url \in DOMAIN cr.settled :
             /\ url \notin cr.fetched
             /\ url \in DOMAIN tk.status
             /\ tk.status[url] = cr.settled[url]

\* the tasks asleep in wait_if_needed
Sleepers(tasks) == { i \in DOMAIN tasks : tasks[i].pc = "gate" }

\* C18: a pending delay is waited for by one caller only (no step leaves
\* more than one task asleep in wait_if_needed), and a task that wakes up
\* does not clear a delay other than the one it slept on.
C18_DelayConsumedOnce ==
    [][ phase = "crawl" =>
          /\ Cardinality(Sleepers(cr'.tasks)) <= 1
          /\ \A i \in Sleepers(cr.tasks) :
                (/\ i \in DOMAIN cr'.tasks /\ cr'.tasks[i].pc = "fetch"
                 /\ rl.last_retry_after # cr.tasks[i].slept)
                    => rl'.last_retry_after = rl.last_retry_after ]_vars

\* C14: when crawl() has ended, by leaving the batch loop or by an exception
\* that left the loop, no pending non-excluded URL remains:
\* get_pending_links() is empty.
C14_EndsWithNothingPending ==
    (phase = "crawl" /\ cr.pc \in { "done", "crashed" }) =>
        get_pending_links(tk) = {}

\* a batch task whose fetch failed for good, or that an exception left
FailedTask(task) ==
    /\ task.pc = "done"
    /\ \/ task.ret = "raise"
       \/ ~IsNone(task.call) /\ IsNone(Val(task.call).result)

\* C15: a URL of a batch whose fetch fails for good, or whose task raises,
\* does not abort the crawl: the crawl does not crash in that batch, and once
\* the batch is folded the failing URL is FAILED with an error string and
\* every URL of the batch that returned data is COMPLETED.
C15_FailureDoesNotAbort ==
    (/\ phase = "crawl" /\ cr.round >= 1
     /\ \E i \in DOMAIN cr.tasks : FailedTask(cr.tasks[i])) =>
        /\ cr.pc # "crashed"
        /\ cr.pc \in { "loop", "done" } =>
             \A i \in DOMAIN cr.tasks :
                LET task == cr.tasks[i]
                    key == Clean(task.url)
                IN  /\ FailedTask(task) =>
                         /\ key \in DOMAIN tk.links
                         /\ tk.status[key] = FAILED
                         /\ ~IsNone(tk.links[key].error)
                    /\ task.ret = "dict" =>
                         /\ key \in DOMAIN tk.links
                         /\ tk.status[key] = COMPLETED

\* C16: a step that marks a URL IN_PROGRESS or starts a scrape_url task of
\* a new batch is taken only when every task of the batch before it (and
\* the seed's) has resolved.
C16_BatchesSequential ==
    [][ (\/ cr'.round # cr.round
         \/ \E url \in DOMAIN tk'.status :
              /\ tk'.status[url] = IN_PROGRESS
              /\ ~(url \in DOMAIN tk.status /\ tk.status[url] = IN_PROGRESS))
        => \A i \in DOMAIN cr.tasks : cr.tasks[i].pc = "done" ]_vars

\* C16 witness: a second batch is in flight, its task awaiting the Fetcher.
C16_Witness ==
    /\ phase = "crawl" /\ cr.pc = "batch" /\ cr.round = 2
    /\ \E i \in DOMAIN cr.tasks : cr.tasks[i].pc = "fetch"

\* C17: every request a scrape_url task has sent to the Fetcher was preceded
\* by a call of wait_if_needed of its own: a task has issued no more requests
\* than it has made gate calls.
C17_GateBeforeEveryRequest ==
    phase = "crawl" =>
        \A i \in DOMAIN cr.tasks :
            ~IsNone(cr.tasks[i].call) =>
                Val(cr.tasks[i].call).requests <= cr.tasks[i].gates

\* C19: while a batch is in flight (between its dispatch and the return of
\* gather) neither the tracker nor the rate limiter changes: the steps of
\* the concurrent scrape_url tasks mutate neither.
C19_TasksMutateNothing ==
    [][ (phase = "crawl" /\ cr.pc = "batch" /\ cr'.pc = "batch")
        => (tk' = tk /\ rl' = rl) ]_vars

\* the task's URL has a binary extension (scraper.py:139), or the response
\* its scrape_with_retry returned has a binary content-type (lines 187-190)
IsBinary(task) ==
    \/ IsBinaryUrl(task.url)
    \/ /\ task.pc = "done" /\ ~IsNone(task.call)
       /\ ~IsNone(Val(task.call).result)
       /\ IsBinaryType(Val(Val(task.call).result).content_type)

\* C23: when the results of a batch have been folded, every URL of the batch
\* that is binary, by its extension or by the content-type of its response,
\* has a terminal status in the frontier, and the fold appended no record
\* for it to the output log.
C23_BinaryRecordedNotLogged ==
    [][ (phase = "crawl" /\ cr.pc = "batch" /\ cr'.pc = "loop") =>
          \A i \in DOMAIN cr.tasks :
             IsBinary(cr.tasks[i]) =>
                /\ cr.tasks[i].url \in DOMAIN tk'.status
                /\ tk'.status[cr.tasks[i].url] \in { COMPLETED, FAILED }
                /\ \A k \in (Len(cr.log) + 1)..Len(cr'.log) :
                      cr'.log[k] # cr.tasks[i].url ]_vars

\* a status change along PENDING -> IN_PROGRESS -> {COMPLETED | FAILED}
Forward(before, after) ==
    \/ after = before
    \/ before = PENDING /\ after \in { IN_PROGRESS, COMPLETED, FAILED }
    \/ before = IN_PROGRESS /\ after \in { COMPLETED, FAILED }

\* C24: every key of the frontier has exactly one status, and in every step
\* of a crawl, the step from an interrupted run to the run that resumes it
\* included, the status of a key stays or moves forward along PENDING ->
\* IN_PROGRESS -> {COMPLETED | FAILED}: no key returns to PENDING and a
\* COMPLETED or FAILED key keeps its status.
C24_StatusMonotonic ==
    [][ phase = "crawl" =>
          /\ \A url \in DOMAIN tk'.links :
                url \in DOMAIN tk'.status /\ tk'.status[url] \in Statuses
          /\ \A url \in DOMAIN tk.status \cap DOMAIN tk'.status :
                Forward(tk.status[url], tk'.status[url]) ]_vars

\* C30: at every point of a run, interrupted there or not, each URL without
\* a binary extension that the state file shows COMPLETED has its record in
\* the output log.
C30_CompletedAreLogged ==
    (phase = "crawl" /\ ~IsNone(tk.file)) =>
        \A url \in DOMAIN Val(tk.file).status :
           (Val(tk.file).status[url] = StatusValue(COMPLETED) /\ ~IsBinaryUrl(url))
              => \E k \in DOMAIN cr.log : cr.log[k] = url

\* C31: when crawl() has returned normally, every key of the frontier is
\* COMPLETED or FAILED.
C31_AllSettledAtReturn ==
    (phase = "crawl" /\ cr.pc = "done") =>
        \A url \in DOMAIN tk.status : tk.status[url] \in { COMPLETED, FAILED }

\* the scrape_with_retry call of the task returned a 5xx response from its
\* last attempt (scraper.py:91-96)
ServerErrorPersisted(task) ==
    /\ task.pc = "done" /\ ~IsNone(task.call)
    /\ ~IsNone(Val(task.call).result)
    /\ Val(Val(task.call).result).status_code >= 500
    /\ Val(task.call).attempt = Val(task.call).max_retries - 1
    /\ Val(task.call).statuses = { Val(Val(task.call).result).status_code }

\* C32: a URL whose scrape_with_retry call ended with a 5xx response, every
\* attempt used, is not COMPLETED in the frontier, its scrape_url call returns
\* no record, and the output log has no record for it.
C32_ServerErrorNotCompleted ==
    phase = "crawl" =>
        \A i \in DOMAIN cr.tasks :
           ServerErrorPersisted(cr.tasks[i]) =>
              /\ cr.tasks[i].ret # "dict"
              /\ cr.tasks[i].url \in DOMAIN tk.status
                    => tk.status[cr.tasks[i].url] # COMPLETED
              /\ \A k \in DOMAIN cr.log : cr.log[k] # cr.tasks[i].url

\* C33: within one run no key is fetched twice.  When the loop dispatches a
\* batch, none of its URLs is one whose scrape_url call, by the seed or by an
\* earlier batch, went on to fetch.
C33_FetchedOnce ==
    [][ (phase = "crawl" /\ cr.pc = "loop" /\ cr'.pc = "batch") =>
          \A i \in DOMAIN cr'.tasks : cr'.tasks[i].url \notin cr.fetched ]_vars

\* the tasks of the batch that gather still awaits
Unresolved(tasks) == { i \in DOMAIN tasks : tasks[i].pc # "done" }

\* C22: at every moment during a batch, the number of unresolved fetch tasks
\* is at most rate_limiter.concurrency.
C22_InFlightBounded ==
    (phase = "crawl" /\ cr.pc = "batch")
        => Cardinality(Unresolved(cr.tasks)) <= rl.concurrency

\* C21: each batch consists of the earliest-discovered pending keys. When
\* the loop dispatches a batch, every pending key discovered before a key of
\* the batch is in the batch too.
C21_BatchEarliestFirst ==
    [][ (phase = "crawl" /\ cr.pc = "loop" /\ cr'.pc = "batch") =>
          \A i \in DOMAIN cr'.tasks : \A url \in get_pending_links(tk) :
             tk.discovered_at[url] < tk.discovered_at[cr'.tasks[i].url]
                => \E j \in DOMAIN cr'.tasks : cr'.tasks[j].url = url ]_vars

(***************************************************************************)
(* Claims about the normalization (SpecNorm).                              *)
(***************************************************************************)
\* C20: normalization is idempotent: for every URL, normalizing the key that
\* normalization produced returns that key, so a stored key looks itself up.
C20_NormalizationIdempotent ==
    (phase = "norm" /\ ~IsNone(last.found)) => last.found = last.stored

(***************************************************************************)
(* Claims about the tracker (SpecTracker).                                 *)
(***************************************************************************)
Reported(t) ==
    get_pending_links(t) \cup get_completed_links(t) \cup get_failed_links(t)

\* C2: a URL whose normalized form matches an exclusion pattern of the
\* tracker is in none of get_pending_links(), get_completed_links(),
\* get_failed_links(), neither raw nor as its normalized key, after any
\* sequence of constructions and tracker calls.
C2_ExclusionAbsolute ==
    phase = "tracker" =>
        \A url \in TrackerURLs \cup DOMAIN tk.status :
            should_exclude_url(Clean(url), tk.exclude_patterns) =>
                /\ url \notin Reported(tk)
                /\ Clean(url) \notin Reported(tk)

\* C2 witness: a call was just made on an excluded URL while the tracker
\* reports other links as completed and as failed.
C2_Witness ==
    /\ phase = "tracker"
    /\ last.op \in { "add_link", "update_status", "update_from_result" }
    /\ should_exclude_url(Clean(Val(last.url)), tk.exclude_patterns)
    /\ get_completed_links(tk) # {}
    /\ get_failed_links(tk) # {}

\* C3: two successive add_link calls whose URLs normalize to the same key,
\* the key being new and not excluded: the first returns True, the second
\* returns False and changes nothing, and the key has one PENDING record.
C3_DiscoverIdempotent ==
    [][ ( /\ phase = "tracker"
          /\ last.op = "add_link" /\ last'.op = "add_link"
          /\ nops' = nops + 1
          /\ Clean(Val(last.url)) = Clean(Val(last'.url))
          /\ ~last.known
          /\ ~should_exclude_url(Clean(Val(last.url)), tk.exclude_patterns) )
        => ( /\ IsNone(last.exc) /\ last.ret = "True"
             /\ IsNone(last'.exc) /\ last'.ret = "False"
             /\ tk' = tk
             /\ Clean(Val(last.url)) \in DOMAIN tk'.status
             /\ tk'.status[Clean(Val(last.url))] = PENDING ) ]_vars

\* the key sets per status and the exclusion counter of a tracker
View(t) ==
    [ keys |-> [ st \in Statuses |-> { url \in DOMAIN t.status : t.status[url] = st } ],
      excluded_count |-> t.excluded_count ]

\* the tracker a new process constructs after save_state was called on t
RoundTrip(t) ==
    LinkTracker(t.base_url, TRUE, t.exclude_patterns, save_state(t).t.file, t.now)

\* C9: in every reachable state of a tracker with a state file, save_state
\* followed by the construction of a new LinkTracker on that file with the
\* same exclusion patterns gives the same key set per status and the same
\* excluded_count.
C9_SnapshotRoundTrip ==
    (phase = "tracker" /\ tk.state_file) => View(RoundTrip(tk)) = View(tk)

\* the records a construction on state file `state` purges under `patterns`
Purged(state, patterns) ==
    { url \in DOMAIN state.links : should_exclude_url(url, patterns) }

\* C10: constructing a LinkTracker on an existing state file removes every
\* persisted record, of any status, whose URL matches a pattern of the new
\* tracker, adds the number of removed records to the file's excluded_count,
\* leaves the other records, statuses and discovery times as loaded, and
\* writes the state file again when it removed a record.
C10_RestorePurges ==
    [][ ( /\ phase = "tracker"
          /\ last'.op = "restart" /\ nops' = nops + 1
          /\ ~IsNone(tk.file) )
        => LET state == Val(tk.file)
               gone == Purged(state, tk'.exclude_patterns)
               kept == DOMAIN state.links \ gone
               loaded == load_state(tk', state)
           IN  /\ DOMAIN tk'.links = kept
               /\ DOMAIN tk'.status = DOMAIN state.status \ gone
               /\ DOMAIN tk'.discovered_at = DOMAIN state.discovered_at \ gone
               /\ tk'.excluded_count = state.excluded_count + Cardinality(gone)
               /\ \A url \in kept :
                    /\ tk'.status[url] = CrawlStatus(state.status[url])
                    /\ tk'.links[url] = loaded.links[url]
                    /\ tk'.discovered_at[url] = state.discovered_at[url]
               /\ tk'.file = IF gone # {} THEN Some(StateOf(tk')) ELSE tk.file ]_vars

\* C10 witness: a construction on a state file with one COMPLETED and one
\* PENDING record purged the PENDING one: one URL is left and the counter,
\* 0 in the file, is 1.
C10_Witness ==
    /\ phase = "tracker"
    /\ last.op = "restart" /\ nops = 1
    /\ tk.excluded_count = 1
    /\ get_pending_links(tk) = {}
    /\ Cardinality(get_completed_links(tk)) = 1
    /\ Cardinality(DOMAIN tk.links) = 1

\* C29: when update_from_result records a success (the fetched URL's record
\* is COMPLETED and carries the response) whose final URL has a key other than
\* the fetched URL's and is on the crawl domain, the normalized
\* final URL is a frontier entry after the call (PENDING if it was not known,
\* unchanged if it was); a final URL on another domain is not added, and
\* neither is one that an exclusion pattern matches (C2).
C29_RedirectTargetTracked ==
    [][ phase = "tracker" =>
          \A url \in TrackerURLs : \A result \in TrackerResults(url) :
             LET Called(outcome, final) ==
                     (/\ last'.op = "update_from_result" /\ last'.url = Some(url)
                      /\ tk' = outcome.t /\ last'.exc = outcome.exc
                      /\ Clean(url) \in DOMAIN tk'.status
                      /\ tk'.status[Clean(url)] = COMPLETED
                      /\ tk'.links[Clean(url)].redirect # None
                      /\ final # Clean(url))
                        => IF /\ get_domain(result.url) = tk.domain
                              /\ ~should_exclude_url(final, tk.exclude_patterns)
                           THEN /\ final \in DOMAIN tk'.links
                                /\ IF final \in DOMAIN tk.links
                                   THEN /\ tk'.status[final] = tk.status[final]
                                        /\ tk'.links[final] = tk.links[final]
                                   ELSE tk'.status[final] = PENDING
                           ELSE final \in DOMAIN tk'.links => final \in DOMAIN tk.links
             IN  Called(update_from_result(tk, result, url), Clean(result.url)) ]_vars

\* C1: for any sequence of update_concurrency calls and every initial
\* concurrency the constructor accepts, min_concurrency <= concurrency <=
\* max_concurrency in every reachable state of the RateLimiter.
C1_ConcurrencyWithinBounds ==
    phase = "rl" =>
        /\ rl.min_concurrency <= rl.concurrency
        /\ rl.concurrency <= rl.max_concurrency

\* C28: update_concurrency is additive. On status 429 it increments the
\* consecutive-429 counter, lowers concurrency by exactly 1 unless it is
\* already at min_concurrency, and sets the pending delay to retry_after when
\* one is present (otherwise leaves it unchanged); on any other status it
\* resets the counter to 0, raises concurrency by exactly 1 unless it is
\* already at max_concurrency, and leaves the pending delay unchanged.
C28_UpdateConcurrencyAdditive ==
    [][ phase = "rl" =>
          \A sc \in StatusCodes, ra \in RetryAfters :
             rl' = update_concurrency(rl, sc, ra) =>
                IF sc = 429
                THEN /\ rl'.consecutive_429s = rl.consecutive_429s + 1
                     /\ rl'.concurrency = IF rl.concurrency = rl.min_concurrency
                                          THEN rl.concurrency
                                          ELSE rl.concurrency - 1
                     /\ rl'.last_retry_after = IF IsNone(ra)
                                               THEN rl.last_retry_after
                                               ELSE ra
                ELSE /\ rl'.consecutive_429s = 0
                     /\ rl'.concurrency = IF rl.concurrency = rl.max_concurrency
                                          THEN rl.concurrency
                                          ELSE rl.concurrency + 1
                     /\ rl'.last_retry_after = rl.last_retry_after ]_vars

\* C34: save_state succeeds on every reachable tracker state, and add_link
\* of a new URL that no pattern excludes, with a state file configured,
\* returns True without raising and leaves the state file holding what the
\* tracker holds.
C34_SaveStateSucceeds ==
    phase = "tracker" =>
        /\ ~Raised(save_state(tk))
        /\ (/\ last.op = "add_link" /\ ~last.known /\ tk.state_file
            /\ ~should_exclude_url(Clean(Val(last.url)), tk.exclude_patterns))
              => /\ IsNone(last.exc)
                 /\ last.ret = "True"
                 /\ Persisted(tk)

\* C35: after every tracker operation (add_link, update_status,
\* update_from_result, save_state, the construction from a state file with
\* its purge), whether it returned or raised, the maps links, status and
\* discovered_at have the same keys.
C35_SameKeys ==
    phase = "tracker" =>
        /\ DOMAIN tk.links = DOMAIN tk.status
        /\ DOMAIN tk.status = DOMAIN tk.discovered_at

\* C35 witness: a tracker built from a snapshot of two URLs purged one of
\* them, then added a new URL (add_link raised after inserting it) and
\* recorded a redirected result for the URL it had loaded.
C35_Witness ==
    /\ phase = "tracker" /\ nops = 2
    /\ last.op = "update_from_result" /\ last.url = Some(Page)
    /\ tk.exclude_patterns = { <<"/", "ex", "/">> } /\ tk.excluded_count = 1
    /\ DOMAIN tk.links = { Root, Page }
    /\ DOMAIN tk.status = { Root, Page }
    /\ DOMAIN tk.discovered_at = { Root, Page }
    /\ tk.status[Page] = COMPLETED /\ tk.status[Root] = PENDING

====
